---- MODULE Spec2Model ----
(***************************************************************************)
(* Model of the executables of gaussian-splatting-cuda:                    *)
(*   - the training driver main()          (src/unnamed/part_000)          *)
(*   - the render tool main(), revisions 1 and 2                           *)
(*                                         (src/tools/render_from_json.cpp)*)
(* One behaviour is one run of one executable (variable prog).             *)
(* The Trainer loop, the MCMC strategy and the Splat Model are not part of *)
(* the sources at hand; they are modelled from sections 3-5 of the         *)
(* specification and are marked as such in the comments.                   *)
(***************************************************************************)
EXTENDS Integers, Sequences, FiniteSets, TLC

\* ------------------------------------------------------------------ bounds
MaxCams == 3          \* longest camera list fed to the render tool
MaxIter == 3          \* configured number of training iterations
Budget == 3           \* configured maximum splat count (max_cap)
StartIter == 1        \* start_iteration of the refine window
StopIter == 3         \* stop_iteration of the refine window
RefineEvery == 1      \* refine_every

VARIABLES
    prog,                \* which executable runs
    pc,                  \* position of the main thread
    exited,              \* main has returned (or the process aborted)
    exit_code,           \* process exit status
    out,                 \* lines on standard output
    err,                 \* lines on standard error
    failed,              \* the steps whose result was an error
    \* ---- training driver
    viewer_mode,         \* params.viewer_mode
    headless,            \* params.optimization.headless
    trainer_constructed, \* gs::Trainer has been built
    train_called,        \* Trainer::train has been entered
    t_pc,                \* position of the context running Trainer::train
    iter,                \* Training Session State: iteration counter
    stop_requested,      \* stop state shared by jthread and stop_token
    is_running,          \* Trainer::is_running()
    train_result,        \* value returned by Trainer::train
    len,                 \* length of every attribute / optimizer array
    stamp,               \* per array: parity of relocation rewrites applied
    mut,                 \* structural mutation in progress
    viewer_seen,         \* what the viewer's last rasterize read
    \* ---- render tool
    dir_created,         \* create_directories(out_dir) has run
    cameras,             \* std::vector<nlohmann::json> cameras
    it,                  \* position of the range-for over cameras
    cam_idx,             \* int cam_idx
    saved                \* images written, in order

driver_vars == <<viewer_mode, headless, trainer_constructed, train_called,
                 t_pc, iter, stop_requested, is_running, train_result,
                 len, stamp, mut, viewer_seen>>
model_vars == <<len, stamp, mut>>
render_vars == <<dir_created, cameras, it, cam_idx, saved>>
io_vars == <<exited, exit_code, out, err>>
vars == <<prog, pc, exited, exit_code, out, err, failed,
          viewer_mode, headless, trainer_constructed, train_called,
          t_pc, iter, stop_requested, is_running, train_result,
          len, stamp, mut, viewer_seen,
          dir_created, cameras, it, cam_idx, saved>>

\* ----------------------------------------------------------- process exit
\* the value main returns, as the 8-bit exit status the parent observes
ExitStatus(r) == ((r % 256) + 256) % 256

\* return r from main
Return(r) ==
    /\ pc' = "exited"
    /\ exited' = TRUE
    /\ exit_code' = ExitStatus(r)

\* ======================================================================
\*                            RENDER TOOL
\* ======================================================================
OutDir == "out"
ImgIds == {"0", "1"}

\* a camera entry, reduced to the keys the loop inspects; img_id is a
\* sequence of length at most one (absent / present)
CameraEntries ==
    [intrinsics : BOOLEAN, extrinsics : BOOLEAN,
     img_id : {<<>>} \cup {<<s>> : s \in ImgIds}]

RECURSIVE SeqsUpTo(_, _)
SeqsUpTo(S, n) ==
    IF n = 0 THEN {<<>>}
    ELSE LET shorter == SeqsUpTo(S, n - 1)
         IN shorter \cup {Append(s, x) : s \in {q \in shorter : Len(q) = n - 1}, x \in S}

CameraLists == SeqsUpTo(CameraEntries, MaxCams)

DigitChar(d) ==
    CASE d = 0 -> "0" [] d = 1 -> "1" [] d = 2 -> "2" [] d = 3 -> "3"
      [] d = 4 -> "4" [] d = 5 -> "5" [] d = 6 -> "6" [] d = 7 -> "7"
      [] d = 8 -> "8" [] d = 9 -> "9"

\* std::to_string(int) for a non-negative argument
RECURSIVE to_string(_)
to_string(n) ==
    IF n < 10 THEN DigitChar(n)
    ELSE to_string(n \div 10) \o DigitChar(n % 10)

\* cam_json.value("img_id", std::to_string(idx))
CameraName(cam_json, idx) ==
    IF cam_json.img_id = <<>> THEN to_string(idx) ELSE cam_json.img_id[1]

\* out_dir / (name + ".png")
OutPath(name) == OutDir \o "/" \o name \o ".png"

\* the loop's test for an entry it cannot use
MissingKeys(cam_json) == ~cam_json.intrinsics \/ ~cam_json.extrinsics

\* revision 1: if (argc < 4) usage, return 1
RenderV1CheckArgs ==
    /\ prog = "render_v1" /\ pc = "args"
    /\ \E argc \in 1..4 :
         IF argc < 4
         THEN /\ err' = Append(err, "Usage: <ply_file> <camera_json> <output_dir>")
              /\ failed' = failed \cup {"args"}
              /\ Return(1)
              /\ UNCHANGED out
         ELSE /\ pc' = "check_ply"
              /\ UNCHANGED <<io_vars, failed>>
    /\ UNCHANGED <<prog, driver_vars, render_vars>>

\* revision 2: parser.ParseCLI and the test of the three required flags
RenderV2ParseCLI ==
    /\ prog = "render_v2" /\ pc = "args"
    /\ \E outcome \in {"help", "parse_error", "parsed"},
          ply_arg \in BOOLEAN, json_arg \in BOOLEAN, out_arg \in BOOLEAN :
         CASE outcome = "help" ->
                /\ out' = Append(out, "parser.Help()")
                /\ Return(0)
                /\ UNCHANGED <<err, failed>>
           [] outcome = "parse_error" ->
                /\ err' = Append(err, "ParseError + parser.Help()")
                /\ failed' = failed \cup {"args"}
                /\ Return(1)
                /\ UNCHANGED out
           [] outcome = "parsed" ->
                IF ~ply_arg \/ ~json_arg \/ ~out_arg
                THEN /\ err' = Append(err, "parser.Help()")
                     /\ failed' = failed \cup {"args"}
                     /\ Return(1)
                     /\ UNCHANGED out
                ELSE /\ pc' = "check_ply"
                     /\ UNCHANGED <<io_vars, failed>>
    /\ UNCHANGED <<prog, driver_vars, render_vars>>

\* variant: the output directory is created before the existence checks
RenderCheckFiles_DirFirst ==
    /\ prog \in {"render_v1", "render_v2"} /\ pc = "check_ply"
    /\ dir_created' = TRUE
    /\ \E ply_exists \in BOOLEAN, json_exists \in BOOLEAN :
         IF ~ply_exists
         THEN /\ err' = Append(err, "PLY file not found")
              /\ failed' = failed \cup {"ply_missing"}
              /\ Return(1)
              /\ UNCHANGED out
         ELSE IF ~json_exists
         THEN /\ err' = Append(err, "Camera JSON file not found")
              /\ failed' = failed \cup {"json_missing"}
              /\ Return(1)
              /\ UNCHANGED out
         ELSE /\ pc' = "load_ply"
              /\ UNCHANGED <<io_vars, failed>>
    /\ UNCHANGED <<prog, driver_vars, cameras, it, cam_idx, saved>>

\* if (!exists(ply_path)) ...; if (!exists(json_path)) ...;
\* create_directories(out_dir)
RenderCheckFiles ==
    /\ prog \in {"render_v1", "render_v2"} /\ pc = "check_ply"
    /\ \E ply_exists \in BOOLEAN, json_exists \in BOOLEAN :
         IF ~ply_exists
         THEN /\ err' = Append(err, "PLY file not found")
              /\ failed' = failed \cup {"ply_missing"}
              /\ Return(1)
              /\ UNCHANGED <<out, dir_created>>
         ELSE IF ~json_exists
         THEN /\ err' = Append(err, "Camera JSON file not found")
              /\ failed' = failed \cup {"json_missing"}
              /\ Return(1)
              /\ UNCHANGED <<out, dir_created>>
         ELSE /\ dir_created' = TRUE
              /\ pc' = "load_ply"
              /\ UNCHANGED <<io_vars, failed>>
    /\ UNCHANGED <<prog, driver_vars, cameras, it, cam_idx, saved>>

\* auto splat_result = gs::load_ply(ply_path)
RenderLoadPly ==
    /\ prog \in {"render_v1", "render_v2"} /\ pc = "load_ply"
    /\ \E loaded \in BOOLEAN :
         IF ~loaded
         THEN /\ err' = Append(err, "Failed to load PLY")
              /\ failed' = failed \cup {"load_ply"}
              /\ Return(1)
              /\ UNCHANGED out
         ELSE /\ pc' = "read_json"
              /\ UNCHANGED <<io_vars, failed>>
    /\ UNCHANGED <<prog, driver_vars, render_vars>>

\* json_stream >> json, then the array / object / other dispatch
RenderReadJson ==
    /\ prog \in {"render_v1", "render_v2"} /\ pc = "read_json"
    /\ \E kind \in {"array", "object", "other"} :
         CASE kind = "array" ->
                /\ \E cams \in CameraLists : cameras' = cams
                /\ pc' = "loop"
                /\ UNCHANGED <<io_vars, failed>>
           [] kind = "object" ->
                /\ \E cam \in CameraEntries : cameras' = <<cam>>
                /\ pc' = "loop"
                /\ UNCHANGED <<io_vars, failed>>
           [] kind = "other" ->
                /\ err' = Append(err, "Invalid JSON format")
                /\ failed' = failed \cup {"json_format"}
                /\ Return(1)
                /\ UNCHANGED <<out, cameras>>
    /\ UNCHANGED <<prog, driver_vars, dir_created, it, cam_idx, saved>>

\* variant: an unusable entry ends the loop (break instead of continue)
RenderLoopBody_Break ==
    /\ prog \in {"render_v1", "render_v2"} /\ pc = "loop"
    /\ it <= Len(cameras)
    /\ LET cam_json == cameras[it] IN
         IF MissingKeys(cam_json)
         THEN /\ err' = Append(err, "Camera entry missing intrinsics or extrinsics")
              /\ it' = Len(cameras) + 1
              /\ UNCHANGED <<out, cam_idx, saved>>
         ELSE LET name == CameraName(cam_json, cam_idx) IN
              /\ saved' = Append(saved, [uid |-> cam_idx, name |-> name,
                                          path |-> OutPath(name), entry |-> it])
              /\ out' = Append(out, "Saved " \o OutPath(name))
              /\ cam_idx' = cam_idx + 1
              /\ it' = it + 1
              /\ UNCHANGED err
    /\ UNCHANGED <<prog, pc, exited, exit_code, failed, driver_vars,
                   dir_created, cameras>>

\* one pass through the body of  for (const auto& cam_json : cameras)
RenderLoopBody ==
    /\ prog \in {"render_v1", "render_v2"} /\ pc = "loop"
    /\ it <= Len(cameras)
    /\ LET cam_json == cameras[it] IN
         IF MissingKeys(cam_json)
         THEN /\ err' = Append(err, "Camera entry missing intrinsics or extrinsics")
              /\ UNCHANGED <<out, cam_idx, saved>>
         ELSE LET name == CameraName(cam_json, cam_idx) IN
              /\ saved' = Append(saved, [uid |-> cam_idx, name |-> name,
                                          path |-> OutPath(name), entry |-> it])
              /\ out' = Append(out, "Saved " \o OutPath(name))
              /\ cam_idx' = cam_idx + 1
              /\ UNCHANGED err
    /\ it' = it + 1
    /\ UNCHANGED <<prog, pc, exited, exit_code, failed, driver_vars,
                   dir_created, cameras>>

\* the loop is exhausted: return 0
RenderReturn ==
    /\ prog \in {"render_v1", "render_v2"} /\ pc = "loop"
    /\ it > Len(cameras)
    /\ Return(0)
    /\ UNCHANGED <<prog, out, err, failed, driver_vars, render_vars>>

RenderNext ==
    \/ RenderV1CheckArgs
    \/ RenderV2ParseCLI
    \/ RenderCheckFiles
    \/ RenderLoadPly
    \/ RenderReadJson
    \/ RenderLoopBody
    \/ RenderReturn


\* ======================================================================
\*          SPLAT MODEL, MCMC STRATEGY, TRAINER LOOP (from the specification)
\* ======================================================================
ModelAttrs == <<"means", "scaling", "rotation", "opacity", "sh">>
OptimizerState == <<"exp_avg", "exp_avg_sq">>
AllArrays == ModelAttrs \o OptimizerState
ArrayNames == {AllArrays[i] : i \in 1..Len(AllArrays)}

NoMutation == [kind |-> "none", delta |-> 0, cursor |-> 0]

\* Splat Model size(): N
Size == len["means"]

Min(a, b) == IF a < b THEN a ELSE b

\* Refine is triggered every refine_every iterations inside
\* [start_iteration, stop_iteration)
IsRefineIter(t) == t >= StartIter /\ t < StopIter /\ t % RefineEvery = 0

\* variant: every candidate is split, whatever the budget
GrowCount_Uncapped(candidates, n) == candidates

\* number of splats a grow step appends: capped by the remaining budget
GrowCount(candidates, n) == Min(candidates, Budget - n)

\* variant: the pass rewrites the Model attributes and forgets the optimizer
MutationPass_ModelOnly == ModelAttrs

\* the arrays a structural pass rewrites, in order
MutationPass == AllArrays

\* the execution context of Trainer::train may take a step: the training
\* thread once started, or the main thread blocked in trainer->train()
TrainContextRuns == ~exited

\* the phases of one iteration, in order
PhaseAfter(p) ==
    CASE p = "rasterize" -> "loss"
      [] p = "loss" -> "backward"
      [] p = "backward" -> "optimizer_step"
      [] p = "optimizer_step" -> "post_step"

\* Trainer::train leaves its loop with result r
TrainLeave(r) ==
    /\ t_pc' = "returned"
    /\ is_running' = FALSE
    /\ train_result' = r

\* entry of Trainer::train / Trainer::train(stop_token)
TrainEnter ==
    /\ prog = "train" /\ TrainContextRuns
    /\ t_pc = "started"
    /\ t_pc' = "boundary"
    /\ is_running' = TRUE
    /\ train_called' = TRUE
    /\ UNCHANGED <<prog, pc, io_vars, failed, viewer_mode, headless,
                   trainer_constructed, iter, stop_requested, train_result,
                   model_vars, viewer_seen, render_vars>>

\* variant: the boundary does not look at the stop token
TrainBoundary_NoStopCheck ==
    /\ prog = "train" /\ ~exited
    /\ t_pc = "boundary"
    /\ IF iter >= MaxIter
       THEN /\ t_pc' = "returned"
            /\ is_running' = FALSE
            /\ train_result' = "ok"
            /\ UNCHANGED iter
       ELSE /\ iter' = iter + 1
            /\ t_pc' = "rasterize"
            /\ UNCHANGED <<is_running, train_result>>
    /\ UNCHANGED <<prog, pc, io_vars, failed, viewer_mode, headless,
                   trainer_constructed, train_called, stop_requested,
                   model_vars, viewer_seen, render_vars>>

\* iteration boundary: the cancellation check, then the next iteration
TrainBoundary ==
    /\ prog = "train" /\ TrainContextRuns
    /\ t_pc = "boundary"
    /\ IF stop_requested
       THEN TrainLeave("ok") /\ UNCHANGED iter
       ELSE IF iter >= MaxIter
       THEN TrainLeave("ok") /\ UNCHANGED iter
       ELSE /\ iter' = iter + 1
            /\ t_pc' = "rasterize"
            /\ UNCHANGED <<is_running, train_result>>
    /\ UNCHANGED <<prog, pc, io_vars, failed, viewer_mode, headless,
                   trainer_constructed, train_called, stop_requested,
                   model_vars, viewer_seen, render_vars>>

\* rasterize -> loss -> backward -> optimizer step; the rasterizer may fail
TrainPhase ==
    /\ prog = "train" /\ TrainContextRuns
    /\ t_pc \in {"rasterize", "loss", "backward", "optimizer_step"}
    /\ \E numerical_failure \in BOOLEAN :
         IF numerical_failure /\ t_pc = "rasterize"
         THEN TrainLeave("error")
         ELSE /\ t_pc' = PhaseAfter(t_pc)
              /\ UNCHANGED <<is_running, train_result>>
    /\ UNCHANGED <<prog, pc, io_vars, failed, viewer_mode, headless,
                   trainer_constructed, train_called, iter, stop_requested,
                   model_vars, viewer_seen, render_vars>>

\* Strategy.post_step(iteration): outside the refine window nothing changes;
\* inside it relocate-dead comes first
StrategyPostStep ==
    /\ prog = "train" /\ TrainContextRuns
    /\ t_pc = "post_step"
    /\ IF ~IsRefineIter(iter)
       THEN /\ t_pc' = "boundary"
            /\ UNCHANGED <<mut, is_running, train_result>>
       ELSE \E dead \in 0..Size :
              IF dead = Size
              THEN TrainLeave("error") /\ UNCHANGED mut
              ELSE IF dead = 0
              THEN /\ t_pc' = "grow"
                   /\ UNCHANGED <<mut, is_running, train_result>>
              ELSE /\ t_pc' = "mutating"
                   /\ mut' = [kind |-> "relocate", delta |-> 0, cursor |-> 0]
                   /\ UNCHANGED <<is_running, train_result>>
    /\ UNCHANGED <<prog, pc, io_vars, failed, viewer_mode, headless,
                   trainer_constructed, train_called, iter, stop_requested,
                   len, stamp, viewer_seen, render_vars>>

\* Grow: select candidates and append one child per selected splat
StrategyGrow ==
    /\ prog = "train" /\ TrainContextRuns
    /\ t_pc = "grow"
    /\ \E candidates \in 0..Size :
         LET n_new == GrowCount(candidates, Size) IN
         IF n_new <= 0
         THEN /\ t_pc' = "noise"
              /\ UNCHANGED mut
         ELSE /\ t_pc' = "mutating"
              /\ mut' = [kind |-> "add", delta |-> n_new, cursor |-> 0]
    /\ UNCHANGED <<prog, pc, io_vars, failed, viewer_mode, headless,
                   trainer_constructed, train_called, iter, stop_requested,
                   is_running, train_result, len, stamp, viewer_seen,
                   render_vars>>

\* one array of the structural rewrite pass (add / replace_subset)
MutateArray ==
    /\ prog = "train" /\ TrainContextRuns
    /\ t_pc = "mutating"
    /\ mut.cursor < Len(MutationPass)
    /\ LET a == MutationPass[mut.cursor + 1] IN
         /\ len' = [len EXCEPT ![a] = @ + mut.delta]
         /\ stamp' = IF mut.kind = "relocate"
                     THEN [stamp EXCEPT ![a] = 1 - @]
                     ELSE stamp
    /\ mut' = [mut EXCEPT !.cursor = @ + 1]
    /\ UNCHANGED <<prog, pc, io_vars, failed, viewer_mode, headless,
                   trainer_constructed, train_called, t_pc, iter,
                   stop_requested, is_running, train_result, viewer_seen,
                   render_vars>>

\* the structural operation is complete
MutateDone ==
    /\ prog = "train" /\ TrainContextRuns
    /\ t_pc = "mutating"
    /\ mut.cursor >= Len(MutationPass)
    /\ t_pc' = IF mut.kind = "relocate" THEN "grow" ELSE "noise"
    /\ mut' = NoMutation
    /\ UNCHANGED <<prog, pc, io_vars, failed, viewer_mode, headless,
                   trainer_constructed, train_called, iter, stop_requested,
                   is_running, train_result, len, stamp, viewer_seen,
                   render_vars>>

\* Noise injection: positions perturbed in place, population unchanged
StrategyNoise ==
    /\ prog = "train" /\ TrainContextRuns
    /\ t_pc = "noise"
    /\ t_pc' = "boundary"
    /\ UNCHANGED <<prog, pc, io_vars, failed, viewer_mode, headless,
                   trainer_constructed, train_called, iter, stop_requested,
                   is_running, train_result, model_vars, viewer_seen,
                   render_vars>>

TrainerNext ==
    \/ TrainEnter
    \/ TrainBoundary
    \/ TrainPhase
    \/ StrategyPostStep
    \/ StrategyGrow
    \/ MutateArray
    \/ MutateDone
    \/ StrategyNoise


\* ======================================================================
\*                      TRAINING DRIVER main()
\* ======================================================================
ZeroArrays == [a \in ArrayNames |-> 0]

\* "attr" is one of the Model attribute arrays
IsModelAttr(a) == \E i \in 1..Len(ModelAttrs) : ModelAttrs[i] = a

\* 1. parse arguments
ParseArgs ==
    /\ prog = "train" /\ pc = "parse_args"
    /\ \E parsed \in BOOLEAN, vm \in BOOLEAN, hl \in BOOLEAN :
         IF ~parsed
         THEN /\ err' = Append(err, "Error: ")
              /\ failed' = failed \cup {"parse_args"}
              /\ Return(-1)
              /\ UNCHANGED <<out, viewer_mode, headless>>
         ELSE /\ viewer_mode' = vm
              /\ headless' = hl
              /\ pc' = IF vm THEN "viewer_load_ply" ELSE "save_config"
              /\ UNCHANGED <<io_vars, failed>>
    /\ UNCHANGED <<prog, trainer_constructed, train_called, t_pc, iter,
                   stop_requested, is_running, train_result, model_vars,
                   viewer_seen, render_vars>>

\* 2. viewer mode: load the PLY file
ViewerModeLoadPly ==
    /\ prog = "train" /\ pc = "viewer_load_ply"
    /\ \E loaded \in BOOLEAN :
         IF ~loaded
         THEN /\ out' = Append(out, "Loading PLY file: ")
              /\ err' = Append(err, "Error loading PLY: ")
              /\ failed' = failed \cup {"load_ply"}
              /\ Return(-1)
         ELSE /\ out' = out \o <<"Loading PLY file: ", "Loaded Gaussians",
                                 "Starting viewer...", "Anti-aliasing: ">>
              /\ pc' = "viewer_standalone"
              /\ UNCHANGED <<exited, exit_code, err, failed>>
    /\ UNCHANGED <<prog, driver_vars, render_vars>>

\* 2. viewer mode: viewer->run() without a trainer, then return 0
ViewerModeRun ==
    /\ prog = "train" /\ pc = "viewer_standalone"
    /\ out' = Append(out, "Viewer closed.")
    /\ Return(0)
    /\ UNCHANGED <<prog, err, failed, driver_vars, render_vars>>

\* 3. save the training configuration
SaveConfig ==
    /\ prog = "train" /\ pc = "save_config"
    /\ \E saved_ok \in BOOLEAN :
         IF ~saved_ok
         THEN /\ err' = Append(err, "Error saving config: ")
              /\ failed' = failed \cup {"save_config"}
              /\ Return(-1)
              /\ UNCHANGED out
         ELSE /\ pc' = "create_dataset"
              /\ UNCHANGED <<io_vars, failed>>
    /\ UNCHANGED <<prog, driver_vars, render_vars>>

\* 4. create the dataset
CreateDataset ==
    /\ prog = "train" /\ pc = "create_dataset"
    /\ \E created \in BOOLEAN :
         IF ~created
         THEN /\ err' = Append(err, "Error creating dataset: ")
              /\ failed' = failed \cup {"create_dataset"}
              /\ Return(-1)
              /\ UNCHANGED out
         ELSE /\ pc' = "init_model"
              /\ UNCHANGED <<io_vars, failed>>
    /\ UNCHANGED <<prog, driver_vars, render_vars>>

\* 5. model initialisation from the seed point cloud
InitModel ==
    /\ prog = "train" /\ pc = "init_model"
    /\ \E initialised \in BOOLEAN, n0 \in 1..Budget :
         IF ~initialised
         THEN /\ err' = Append(err, "Error initializing model: ")
              /\ failed' = failed \cup {"init_model"}
              /\ Return(-1)
              /\ UNCHANGED <<out, len>>
         ELSE /\ len' = [a \in ArrayNames |-> IF IsModelAttr(a) THEN n0 ELSE 0]
              /\ pc' = "create_trainer"
              /\ UNCHANGED <<io_vars, failed>>
    /\ UNCHANGED <<prog, viewer_mode, headless, trainer_constructed,
                   train_called, t_pc, iter, stop_requested, is_running,
                   train_result, stamp, mut, viewer_seen, render_vars>>

\* 6./7. create the strategy and the trainer (optimizer state sized to N)
CreateTrainer ==
    /\ prog = "train" /\ pc = "create_trainer"
    /\ trainer_constructed' = TRUE
    /\ len' = [a \in ArrayNames |-> Size]
    /\ pc' = IF headless THEN "train_headless" ELSE "create_viewer"
    /\ UNCHANGED <<prog, io_vars, failed, viewer_mode, headless, train_called,
                   t_pc, iter, stop_requested, is_running, train_result,
                   stamp, mut, viewer_seen, render_vars>>

\* 8. GUI mode: trainer->create_and_get_viewer()
CreateViewer ==
    /\ prog = "train" /\ pc = "create_viewer"
    /\ \E created \in BOOLEAN :
         IF ~created
         THEN /\ err' = Append(err, "Error creating viewer: ")
              /\ failed' = failed \cup {"create_viewer"}
              /\ Return(-1)
              /\ UNCHANGED out
         ELSE /\ pc' = "start_thread"
              /\ UNCHANGED <<io_vars, failed>>
    /\ UNCHANGED <<prog, driver_vars, render_vars>>

\* std::jthread training_thread(...): the thread exists, train not yet entered
StartTrainingThread ==
    /\ prog = "train" /\ pc = "start_thread"
    /\ t_pc' = "started"
    /\ pc' = "viewer_run"
    /\ UNCHANGED <<prog, io_vars, failed, viewer_mode, headless,
                   trainer_constructed, train_called, iter, stop_requested,
                   is_running, train_result, model_vars, viewer_seen,
                   render_vars>>

\* a frame of viewer->run(): rasterize on the trainer's live model,
\* trainer_->get_strategy().get_model(); the fragment takes no lock and
\* makes no copy, so the read is not ordered with the training thread's
\* writes and sees whatever the arrays hold at that moment
ViewerRasterize ==
    /\ prog = "train" /\ pc = "viewer_run"
    /\ viewer_seen' = [len |-> len, stamp |-> stamp]
    /\ UNCHANGED <<prog, pc, io_vars, failed, viewer_mode, headless,
                   trainer_constructed, train_called, t_pc, iter,
                   stop_requested, is_running, train_result, model_vars,
                   render_vars>>

\* the window is closed: viewer->run() returns
ViewerRunReturns ==
    /\ prog = "train" /\ pc = "viewer_run"
    /\ pc' = "check_running"
    /\ UNCHANGED <<prog, io_vars, failed, driver_vars, render_vars>>

\* if (trainer->is_running()) { println; training_thread.request_stop(); }
RequestStopIfRunning ==
    /\ prog = "train" /\ pc = "check_running"
    /\ IF is_running
       THEN /\ out' = Append(out, "Main: Requesting training stop...")
            /\ stop_requested' = TRUE
       ELSE UNCHANGED <<out, stop_requested>>
    /\ pc' = "print_waiting"
    /\ UNCHANGED <<prog, exited, exit_code, err, failed, viewer_mode, headless,
                   trainer_constructed, train_called, t_pc, iter, is_running,
                   train_result, model_vars, viewer_seen, render_vars>>

\* the two println calls that follow
PrintWaitingAndFinished ==
    /\ prog = "train" /\ pc = "print_waiting"
    /\ out' = out \o <<"Main: Waiting for training thread to finish...",
                       "Main: Training thread finished.">>
    /\ pc' = "thread_dtor"
    /\ UNCHANGED <<prog, exited, exit_code, err, failed, driver_vars,
                   render_vars>>

\* end of the block: ~jthread() calls request_stop() ...
JthreadDtorRequestStop ==
    /\ prog = "train" /\ pc = "thread_dtor"
    /\ stop_requested' = TRUE
    /\ pc' = "join"
    /\ UNCHANGED <<prog, io_vars, failed, viewer_mode, headless,
                   trainer_constructed, train_called, t_pc, iter, is_running,
                   train_result, model_vars, viewer_seen, render_vars>>

\* ... and join(); then main returns 0
JthreadDtorJoin ==
    /\ prog = "train" /\ pc = "join"
    /\ t_pc = "terminated"
    /\ Return(0)
    /\ UNCHANGED <<prog, out, err, failed, driver_vars, render_vars>>

\* body of the thread's lambda after train(stop_token) has returned
TrainingThreadFinish ==
    /\ prog = "train" /\ ~headless
    /\ t_pc = "returned"
    /\ err' = IF train_result = "error"
              THEN Append(err, "Training error: ")
              ELSE err
    /\ t_pc' = "terminated"
    /\ UNCHANGED <<prog, pc, exited, exit_code, out, failed, viewer_mode,
                   headless, trainer_constructed, train_called, iter,
                   stop_requested, is_running, train_result, model_vars,
                   viewer_seen, render_vars>>

\* headless mode: main calls trainer->train()
HeadlessTrainCall ==
    /\ prog = "train" /\ pc = "train_headless"
    /\ t_pc' = "started"
    /\ pc' = "in_train"
    /\ UNCHANGED <<prog, io_vars, failed, viewer_mode, headless,
                   trainer_constructed, train_called, iter, stop_requested,
                   is_running, train_result, model_vars, viewer_seen,
                   render_vars>>

\* headless mode: train() has returned
HeadlessTrainReturn ==
    /\ prog = "train" /\ pc = "in_train"
    /\ t_pc = "returned"
    /\ IF train_result = "error"
       THEN /\ err' = Append(err, "Training error: ")
            /\ Return(-1)
       ELSE /\ Return(0)
            /\ UNCHANGED err
    /\ t_pc' = "terminated"
    /\ UNCHANGED <<prog, out, failed, viewer_mode, headless,
                   trainer_constructed, train_called, iter, stop_requested,
                   is_running, train_result, model_vars, viewer_seen,
                   render_vars>>

DriverNext ==
    \/ ParseArgs
    \/ ViewerModeLoadPly
    \/ ViewerModeRun
    \/ SaveConfig
    \/ CreateDataset
    \/ InitModel
    \/ CreateTrainer
    \/ CreateViewer
    \/ StartTrainingThread
    \/ ViewerRasterize
    \/ ViewerRunReturns
    \/ RequestStopIfRunning
    \/ PrintWaitingAndFinished
    \/ JthreadDtorRequestStop
    \/ JthreadDtorJoin
    \/ TrainingThreadFinish
    \/ HeadlessTrainCall
    \/ HeadlessTrainReturn

\* ======================================================================
\*                           SPECIFICATION
\* ======================================================================
Programs == {"train", "render_v1", "render_v2"}

Init ==
    /\ prog \in Programs
    /\ pc = IF prog = "train" THEN "parse_args" ELSE "args"
    /\ exited = FALSE
    /\ exit_code = 0
    /\ out = <<>>
    /\ err = <<>>
    /\ failed = {}
    /\ viewer_mode = FALSE
    /\ headless = FALSE
    /\ trainer_constructed = FALSE
    /\ train_called = FALSE
    /\ t_pc = "not_started"
    /\ iter = 0
    /\ stop_requested = FALSE
    /\ is_running = FALSE
    /\ train_result = "none"
    /\ len = ZeroArrays
    /\ stamp = ZeroArrays
    /\ mut = NoMutation
    /\ viewer_seen = [len |-> ZeroArrays, stamp |-> ZeroArrays]
    /\ dir_created = FALSE
    /\ cameras = <<>>
    /\ it = 1
    /\ cam_idx = 0
    /\ saved = <<>>

Next == RenderNext \/ TrainerNext \/ DriverNext

Spec == Init /\ [][Next]_vars


\* ======================================================================
\*                              CLAIMS
\* ======================================================================
RenderTool == prog \in {"render_v1", "render_v2"}

Contains(s, x) == \E i \in 1..Len(s) : s[i] = x

RECURSIVE CountOf(_, _)
CountOf(s, x) ==
    IF s = <<>> THEN 0
    ELSE (IF Head(s) = x THEN 1 ELSE 0) + CountOf(Tail(s), x)

\* the positions among the first n camera entries that carry both keys
RECURSIVE Usable(_)
Usable(n) ==
    IF n = 0 THEN <<>>
    ELSE IF MissingKeys(cameras[n]) THEN Usable(n - 1)
    ELSE Append(Usable(n - 1), n)

ConfigSteps == {"parse_args", "save_config", "create_dataset", "init_model"}
InputSteps == {"args", "ply_missing", "json_missing"}

InIteration ==
    t_pc \in {"rasterize", "loss", "backward", "optimizer_step", "post_step",
              "grow", "mutating", "noise"}

\* ---------------------------------------------------------------------
\* C1: when the training driver has exited, the exit status is 0 only if no
\* step reported an error, and every reported error (a training error
\* included) comes with a message on standard error and a nonzero status.
C1_ExitStatusReportsErrors ==
    (prog = "train" /\ exited) =>
        LET error_reported == failed # {} \/ train_result = "error" IN
        /\ exit_code = 0 => ~error_reported
        /\ error_reported => (exit_code # 0 /\ err # <<>>)

\* ---------------------------------------------------------------------
\* C2: a stop request is acted on only at an iteration boundary: once it is
\* made no iteration is started, an iteration in flight is left only by
\* completing (or by failing), and at the boundary the loop halts with
\* success.
C2_StopOnlyAtBoundary ==
    [][ /\ stop_requested => iter' = iter
        /\ (InIteration /\ t_pc' = "returned") => train_result' = "error"
        /\ (stop_requested /\ t_pc = "boundary" /\ t_pc' # t_pc)
              => (t_pc' = "returned" /\ train_result' = "ok") ]_vars

\* the loop has halted on a stop request after at least one iteration and
\* before the configured last one
C2_Witness ==
    /\ stop_requested /\ t_pc = "returned" /\ train_result = "ok"
    /\ iter >= 1 /\ iter < MaxIter

C6_ConfigErrorsAreFatalFirst ==
    /\ (prog = "train" /\ failed \cap ConfigSteps # {})
          => (~trainer_constructed /\ ~train_called /\ exited)
    /\ (RenderTool /\ failed \cap InputSteps # {})
          => (~dir_created /\ saved = <<>> /\ exited)

\* the render tool has stopped on a camera file that does not exist
C6_Witness ==
    RenderTool /\ exited /\ failed = {"json_missing"}

C8_NothingRenderedIsFatal ==
    (RenderTool /\ exited /\ dir_created /\ failed = {} /\ saved = <<>>)
        => exit_code # 0

\* ---------------------------------------------------------------------
\* C9: in interactive mode main joins only after a stop request, returns
\* only after the training thread has terminated, and prints
\* "Main: Training thread finished." only after it has terminated.
C9_JoinAfterStopAndMessageAfterJoin ==
    (prog = "train" /\ t_pc # "not_started" /\ ~headless) =>
        /\ pc = "join" => stop_requested
        /\ exited => t_pc = "terminated"
        /\ Contains(out, "Main: Training thread finished.")
              => t_pc = "terminated"

\* ---------------------------------------------------------------------
\* C10: the rendered cameras carry the ids 0, 1, 2, ... and no two of them
\* are saved to the same path.
C10_DistinctOutputPaths ==
    RenderTool =>
        /\ \A i \in 1..Len(saved) : saved[i].uid = i - 1
        /\ \A i, j \in 1..Len(saved) :
              i # j => saved[i].path # saved[j].path

====
